---- MODULE Spec2Model ----
(***************************************************************************)
(* Tensor serialization of thpp (thpp/TensorSerialization.cpp and the      *)
(* serialization part of thpp/Tensor-inl.h).                               *)
(*                                                                         *)
(* One call of Tensor<T>::serialize -> detail::serialize is followed       *)
(* through its straight-line part, its odometer loop (one action per loop  *)
(* iteration) and its return; detail::deserialize then reads the record.   *)
(*                                                                         *)
(* A buffer is a window (start, length) on a block of memory, as an IOBuf  *)
(* is a data pointer and a length over its allocation.  The storage of the *)
(* tensor holds, at byte k, the value k: two bytes of a payload are then   *)
(* equal exactly when they were read from the same byte of the storage,    *)
(* which is the most general content for code that never inspects the      *)
(* bytes it moves.  A byte past the end of the memory is the value Garbage.*)
(***************************************************************************)
EXTENDS Integers, Sequences, FiniteSets, TLC

\* ------------------------------------------------------------ bounds
MaxSize == 2
MaxStride == 2
MaxOffset == 1
DeepDims == 3

\* ------------------------------------------------- program constants
kMinCloneSize == 4096

\* uint64_t arithmetic is modular.  TLC's integers are 32 bits wide, so the
\* modulus is scaled down to 2^30; every quantity of the bounded model is
\* far below it, and a wrap-around happens exactly where it would with 2^64
\* (a difference of two lengths that is negative).
WordModulus == 2^30

Wrap(x) == x % WordModulus

Garbage == -1

VARIABLES tensor, gMachineEndianness, call, rx

vars == <<tensor, gMachineEndianness, call, rx>>

\* ------------------------------------------------------------ helpers
RECURSIVE Prod(_)
Prod(s) == IF s = <<>> THEN 1 ELSE Head(s) * Prod(Tail(s))

DataTypes == {"BYTE", "INT32"}

\* sizeof(T) of the tensor's element type.
ElementSize(dtype) == IF dtype = "BYTE" THEN 1 ELSE 4

Endiannesses == {"LITTLE", "BIG", "NATIVE"}

SharingModes == {"SHARE_NONE", "SHARE_IOBUF_MANAGED", "SHARE_ALL"}

\* ----------------------------------------------------------- IOBuf
\* A block of memory: its size in bytes and its content.  The content is
\* either the storage of a tensor (view = <<>>: byte k holds k) or the
\* row-major flattening of a view of such a storage.
RowMajorStrides(sizes) ==
  [d \in 1..Len(sizes) |-> Prod(SubSeq(sizes, d + 1, Len(sizes)))]

ColMajorStrides(sizes) ==
  [d \in 1..Len(sizes) |-> Prod(SubSeq(sizes, 1, d - 1))]

\* The index along dimension d (1-based) of the element of row-major rank r.
IndexOf(sizes, r, d) ==
  (r \div Prod(SubSeq(sizes, d + 1, Len(sizes)))) % sizes[d]

\* The element offset, from the base of the view, of the element of
\* row-major rank r: the sum of index * stride over the dimensions.
RECURSIVE OffsetSum(_, _, _, _)
OffsetSum(sizes, strides, r, d) ==
  IF d > Len(sizes) THEN 0
  ELSE IndexOf(sizes, r, d) * strides[d] + OffsetSum(sizes, strides, r, d + 1)

ElemOffset(sizes, strides, r) ==
  OffsetSum(sizes, IF strides = <<>> THEN RowMajorStrides(sizes) ELSE strides,
            r, 1)

\* The byte at position k (0-based) of a block of memory.
ByteAt(mem, k) ==
  IF k < 0 \/ k >= mem.size THEN Garbage
  ELSE IF mem.view = <<>> THEN k
  ELSE mem.view.start
       + ElemOffset(mem.view.sizes, mem.view.strides,
                    k \div mem.view.es) * mem.view.es
       + (k % mem.view.es)

NoMem == [size |-> 0, view |-> <<>>]

\* IOBuf(): an empty buffer.
EmptyBuf == [mem |-> NoMem, start |-> 0, length |-> 0]

\* The bytes a buffer exposes, in order.
Bytes(buf) == [i \in 1..buf.length |-> ByteAt(buf.mem, buf.start + i - 1)]

\* Whether [off, off + len) lies inside the buffer.
InBounds(buf, off, len) == off + len <= buf.length

\* IOBuf::trimStart(amount): data_ += amount; length_ -= amount.
TrimStart(buf, amount) ==
  [buf EXCEPT !.start = Wrap(buf.start + amount),
              !.length = Wrap(buf.length - amount)]

\* IOBuf::trimEnd(amount): length_ -= amount.
TrimEnd(buf, amount) == [buf EXCEPT !.length = Wrap(buf.length - amount)]

\* partialCloneOne without its DCHECK: a clone of the buffer, trimmed to
\* [offset, offset + length).
PartialCloneOne(buf, offset, length) ==
  LET cloned == TrimStart(buf, offset)
  IN TrimEnd(cloned, Wrap(cloned.length - length))

\* Storage<T>::getIOBuf: the whole storage of the tensor as one buffer.
StorageBuf(t) ==
  [mem |-> [size |-> t.storageElems * ElementSize(t.dtype),
            view |-> t.content],
   start |-> 0, length |-> t.storageElems * ElementSize(t.dtype)]

\* One buffer of the output's IOBuf chain: whether it shares the memory of
\* the source buffer (a clone) or owns a copy of it, and the window of the
\* source it exposes or was copied from.
Segment(alias, buf) == [alias |-> alias, buf |-> buf]

\* The bytes of an IOBuf chain, in order.
RECURSIVE Payload(_)
Payload(chain) ==
  IF chain = <<>> THEN <<>>
  ELSE Bytes(Head(chain).buf) \o Payload(Tail(chain))

\* The number of bytes of an IOBuf chain (computeChainDataLength).
RECURSIVE ChainLength(_)
ChainLength(chain) ==
  IF chain = <<>> THEN 0
  ELSE Head(chain).buf.length + ChainLength(Tail(chain))

\* What the caller's ThriftTensor holds before the call.
PriorOut ==
  [dataType |-> "STALE", endianness |-> "NATIVE", sizes |-> <<7>>,
   data |-> <<Segment(FALSE, [mem |-> [size |-> 9, view |-> <<>>],
                             start |-> 8, length |-> 1])>>]

\* --------------------------------------------------- detail::serialize
\* The frame of a call that has not started.
IdleFrame ==
  [pc |-> "idle", site |-> "", sizes |-> <<>>, strides |-> <<>>,
   data |-> EmptyBuf, data0 |-> EmptyBuf, managed |-> FALSE, dtype |-> "BYTE",
   elementSize |-> 1, endianness |-> "NATIVE", sharing |-> "SHARE_NONE",
   out |-> PriorOut, ndims |-> 0, dataSize |-> 1, contiguousSize |-> 1,
   firstContiguousDim |-> 0, counter |-> <<>>, idx |-> 0, src |-> 0,
   mayShare |-> FALSE, outQueue |-> <<>>, steps |-> 0, oob |-> FALSE,
   oobCopy |-> FALSE, release |-> FALSE]

\* Tensor<T>::serialize: the IOBuf of the storage, trimmed to the tensor's
\* storage offset, is passed with the tensor's sizes and strides.
Entry(t, endianness, sharing) ==
  LET buf == TrimStart(StorageBuf(t), t.storageOffset * ElementSize(t.dtype))
  IN [IdleFrame EXCEPT !.pc = "entry", !.sizes = t.sizes,
        !.strides = t.strides, !.data = buf, !.data0 = buf,
        !.managed = t.managed, !.dtype = t.dtype,
        !.elementSize = ElementSize(t.dtype), !.endianness = endianness,
        !.sharing = sharing]

Fatal(f, site) == [f EXCEPT !.pc = "fatal", !.site = site]

\* A DCHECK that fails aborts a debug build and is compiled out of a
\* release build, which goes on.
Dcheck(ok, dbg, f, site, then) ==
  IF ok THEN then
  ELSE IF dbg /\ ~f.release THEN Fatal(f, site)
  ELSE [then EXCEPT !.release = TRUE]

\* The check that lets NATIVE through as it is.
ResolveEndiannessKeepNative(f, machine) ==
  IF f.endianness = "NATIVE" \/ f.endianness = machine THEN f
  ELSE Fatal(f, "endianness")

\* NATIVE is resolved to the machine's byte order; any other request must
\* be the machine's byte order (CHECK: fatal in every build).
ResolveEndianness(f, machine) ==
  IF f.endianness = "NATIVE" THEN [f EXCEPT !.endianness = machine]
  ELSE IF f.endianness = machine THEN f
  ELSE Fatal(f, "endianness")

\* The scan that takes a dimension into the run when its stride is at
\* least the size of the run so far.
RECURSIVE ContiguousScanLoose(_, _, _, _)
ContiguousScanLoose(sizes, strides, d, cs) ==
  IF d >= 0 /\ strides[d + 1] >= cs
  THEN ContiguousScanLoose(sizes, strides, d - 1, Wrap(cs * sizes[d + 1]))
  ELSE [firstContiguousDim |-> d + 1, contiguousSize |-> cs]

\* The scan that takes a dimension of size 1 into the run whatever its
\* stride.
RECURSIVE ContiguousScanAbsorbOnes(_, _, _, _)
ContiguousScanAbsorbOnes(sizes, strides, d, cs) ==
  IF d >= 0 /\ (strides[d + 1] = cs \/ sizes[d + 1] = 1)
  THEN ContiguousScanAbsorbOnes(sizes, strides, d - 1,
                                Wrap(cs * sizes[d + 1]))
  ELSE [firstContiguousDim |-> d + 1, contiguousSize |-> cs]

\* while (firstContiguousDim >= 0): d is firstContiguousDim, cs is
\* contiguousSize (in elements).
RECURSIVE ContiguousScan(_, _, _, _)
ContiguousScan(sizes, strides, d, cs) ==
  IF d >= 0 /\ strides[d + 1] = cs
  THEN ContiguousScan(sizes, strides, d - 1, Wrap(cs * sizes[d + 1]))
  ELSE [firstContiguousDim |-> d + 1, contiguousSize |-> cs]

\* firstContiguousDim, contiguousSize and dataSize, in elements.
Contiguity(sizes, strides) ==
  IF strides # <<>>
  THEN LET r == ContiguousScan(sizes, strides, Len(sizes) - 1, 1)
       IN [firstContiguousDim |-> r.firstContiguousDim,
           contiguousSize |-> r.contiguousSize,
           dataSize |-> Wrap(r.contiguousSize
                             * Prod(SubSeq(sizes, 1, r.firstContiguousDim)))]
  ELSE [firstContiguousDim |-> 0, contiguousSize |-> Wrap(Prod(sizes)),
        dataSize |-> Wrap(Prod(sizes))]

\* The analysis that leaves the sizes in elements.
AnalyzeNoBytes(f, dbg) ==
  LET c == Contiguity(f.sizes, f.strides)
      g == [f EXCEPT !.ndims = Len(f.sizes),
              !.firstContiguousDim = c.firstContiguousDim,
              !.dataSize = c.dataSize, !.contiguousSize = c.contiguousSize]
  IN Dcheck(g.contiguousSize <= g.dataSize, dbg, g, "contiguousSize", g)

\* The sizes in bytes, and DCHECK_LE(contiguousSize, dataSize).
Analyze(f, dbg) ==
  LET c == Contiguity(f.sizes, f.strides)
      g == [f EXCEPT !.ndims = Len(f.sizes),
              !.firstContiguousDim = c.firstContiguousDim,
              !.dataSize = Wrap(c.dataSize * f.elementSize),
              !.contiguousSize = Wrap(c.contiguousSize * f.elementSize)]
  IN Dcheck(g.contiguousSize <= g.dataSize, dbg, g, "contiguousSize", g)

\* out.dataType, out.endianness and out.sizes.
Header(f) ==
  [f EXCEPT !.out.dataType = f.dtype, !.out.endianness = f.endianness,
            !.out.sizes = f.sizes]

\* if (ndims == 0): empty tensor.
EmptyPath(f) ==
  [f EXCEPT !.out.data = <<>>, !.data = EmptyBuf, !.pc = "done"]

\* detail::applySharingMode: whether the buffer is left sharing the source
\* memory (TRUE) or is made a private copy (FALSE).
ApplySharingMode(sharing, managed) ==
  \/ sharing = "SHARE_ALL"
  \/ sharing = "SHARE_IOBUF_MANAGED" /\ managed

\* The fast path that moves the buffer without trimming it.
FastPathNoTrim(f, dbg) ==
  LET alias == ApplySharingMode(f.sharing, f.managed)
      g == [f EXCEPT !.out.data = <<Segment(alias, f.data)>>,
              !.data = EmptyBuf, !.pc = "done",
              !.oob = ~InBounds(f.data, 0, f.dataSize),
              !.oobCopy = ~alias /\ ~InBounds(f.data, 0, f.dataSize)]
  IN Dcheck(f.data.length >= f.dataSize, dbg, f, "dataLength", g)

\* if (firstContiguousDim == 0): the buffer, trimmed to dataSize bytes, is
\* moved into the record.
FastPath(f, dbg) ==
  LET trimmed == TrimEnd(f.data, Wrap(f.data.length - f.dataSize))
      alias == ApplySharingMode(f.sharing, f.managed)
      g == [f EXCEPT !.out.data = <<Segment(alias, trimmed)>>,
              !.data = EmptyBuf, !.pc = "done",
              !.oob = ~InBounds(f.data, 0, f.dataSize),
              !.oobCopy = ~alias /\ ~InBounds(f.data, 0, f.dataSize)]
  IN Dcheck(f.data.length >= f.dataSize, dbg, f, "dataLength", g)

\* The hard way: the state at the head of the while loop.
MayShare(sharing, managed) ==
  CASE sharing = "SHARE_NONE" -> FALSE
    [] sharing = "SHARE_IOBUF_MANAGED" -> managed
    [] sharing = "SHARE_ALL" -> TRUE

EnterLoop(f) ==
  [f EXCEPT !.outQueue = <<>>,
            !.counter = [i \in 1..f.firstContiguousDim |-> 0],
            !.idx = f.firstContiguousDim, !.src = 0,
            !.mayShare = MayShare(f.sharing, f.managed), !.pc = "loop"]

\* The dispatch that tests firstContiguousDim before ndims.
DispatchFastFirst(f, dbg) ==
  IF f.firstContiguousDim = 0 THEN FastPath(f, dbg)
  ELSE IF f.ndims = 0 THEN EmptyPath(f)
  ELSE EnterLoop(f)

\* After the header is written: one of the three paths.
Dispatch(f, dbg) ==
  IF f.ndims = 0 THEN EmptyPath(f)
  ELSE IF f.firstContiguousDim = 0 THEN FastPath(f, dbg)
  ELSE EnterLoop(f)

\* detail::serialize from its entry to its return or to the head of the
\* while loop.
SerializeEntry(f, machine, dbg) ==
  LET a == ResolveEndianness(f, machine)
      b == IF a.pc = "fatal" THEN a ELSE Analyze(a, dbg)
  IN IF b.pc = "fatal" THEN b ELSE Dispatch(Header(b), dbg)

\* The threshold test that clones only above kMinCloneSize.
CloneRunStrict(mayShare, contiguousSize) ==
  mayShare /\ contiguousSize > kMinCloneSize

\* Whether a run of the loop is cloned rather than copied.
CloneRun(mayShare, contiguousSize) ==
  mayShare /\ contiguousSize >= kMinCloneSize

\* The emission that clones from the start of the buffer, whatever src.
EmitStepCloneAtBase(f, dbg) ==
  LET clone == CloneRun(f.mayShare, f.contiguousSize)
      inb == InBounds(f.data, f.src, f.contiguousSize)
      g == [f EXCEPT !.outQueue =
                Append(@, Segment(clone,
                                  PartialCloneOne(f.data,
                                                  IF clone THEN 0 ELSE f.src,
                                                  f.contiguousSize))),
              !.idx = f.idx - 1, !.steps = f.steps + 1,
              !.oob = f.oob \/ ~inb, !.oobCopy = ~clone /\ ~inb]
  IN IF clone THEN Dcheck(inb, dbg, f, "partialCloneOne", g) ELSE g

\* The emission whose clone is cut out of the source buffer itself.
EmitStepTrimSource(f, dbg) ==
  LET clone == CloneRun(f.mayShare, f.contiguousSize)
      inb == InBounds(f.data, f.src, f.contiguousSize)
      run == PartialCloneOne(f.data, f.src, f.contiguousSize)
      g == [f EXCEPT !.outQueue = Append(@, Segment(clone, run)),
              !.data = IF clone THEN run ELSE f.data,
              !.idx = f.idx - 1, !.steps = f.steps + 1,
              !.oob = f.oob \/ ~inb, !.oobCopy = ~clone /\ ~inb]
  IN IF clone THEN Dcheck(inb, dbg, f, "partialCloneOne", g) ELSE g

\* while (idx >= 0), idx == firstContiguousDim: one run is appended.
\* partialCloneOne: DCHECK_LE(offset + length, buf.length()).
EmitStep(f, dbg) ==
  LET clone == CloneRun(f.mayShare, f.contiguousSize)
      inb == InBounds(f.data, f.src, f.contiguousSize)
      g == [f EXCEPT !.outQueue =
                Append(@, Segment(clone, PartialCloneOne(f.data, f.src,
                                                         f.contiguousSize))),
              !.idx = f.idx - 1, !.steps = f.steps + 1,
              !.oob = f.oob \/ ~inb, !.oobCopy = ~clone /\ ~inb]
  IN IF clone THEN Dcheck(inb, dbg, f, "partialCloneOne", g) ELSE g

\* The odometer that, on a carry, leaves src where the last index put it.
AdvanceStepNoRewind(f) ==
  LET i == f.idx + 1
      moved == Wrap(f.src + f.strides[i] * f.elementSize)
      c == Wrap(f.counter[i] + 1)
  IN IF c = f.sizes[i]
     THEN [f EXCEPT !.src = moved, !.counter[i] = 0, !.idx = f.idx - 1,
             !.steps = f.steps + 1, !.oobCopy = FALSE]
     ELSE [f EXCEPT !.src = moved, !.counter[i] = c,
             !.idx = f.firstContiguousDim, !.steps = f.steps + 1,
             !.oobCopy = FALSE]

\* The odometer that, on a carry, leaves the counter at the size.
AdvanceStepKeepCounter(f) ==
  LET i == f.idx + 1
      moved == Wrap(f.src + f.strides[i] * f.elementSize)
      c == Wrap(f.counter[i] + 1)
  IN IF c = f.sizes[i]
     THEN [f EXCEPT !.src = Wrap(moved - f.sizes[i] * f.strides[i]
                                         * f.elementSize),
             !.counter[i] = c, !.idx = f.idx - 1, !.steps = f.steps + 1,
             !.oobCopy = FALSE]
     ELSE [f EXCEPT !.src = moved, !.counter[i] = c,
             !.idx = f.firstContiguousDim, !.steps = f.steps + 1,
             !.oobCopy = FALSE]

\* while (idx >= 0), idx < firstContiguousDim: the odometer advances.
AdvanceStep(f) ==
  LET i == f.idx + 1
      moved == Wrap(f.src + f.strides[i] * f.elementSize)
      c == Wrap(f.counter[i] + 1)
  IN IF c = f.sizes[i]
     THEN [f EXCEPT !.src = Wrap(moved - f.sizes[i] * f.strides[i]
                                         * f.elementSize),
             !.counter[i] = 0, !.idx = f.idx - 1, !.steps = f.steps + 1,
             !.oobCopy = FALSE]
     ELSE [f EXCEPT !.src = moved, !.counter[i] = c,
             !.idx = f.firstContiguousDim, !.steps = f.steps + 1,
             !.oobCopy = FALSE]

\* outQueue.move()->cloneInto(out.data).
FinishStep(f) ==
  [f EXCEPT !.out.data = f.outQueue, !.pc = "done", !.oobCopy = FALSE]

\* The loop can be followed while no counter has passed the size of its
\* dimension: one that has (a dimension of size 0) meets it again only
\* after wrapping around 2^64, which the model does not follow.
CanStep(f) ==
  /\ f.pc = "loop"
  /\ f.idx >= 0 /\ f.idx < f.firstContiguousDim
       => f.counter[f.idx + 1] <= f.sizes[f.idx + 1]

LoopStep(f, dbg) ==
  IF f.idx < 0 THEN FinishStep(f)
  ELSE IF f.idx = f.firstContiguousDim THEN EmitStep(f, dbg)
  ELSE AdvanceStep(f)

\* The call as a function of its arguments: the frame it ends in.
RECURSIVE RunLoop(_, _)
RunLoop(f, dbg) == IF CanStep(f) THEN RunLoop(LoopStep(f, dbg), dbg) ELSE f

Serialize(t, endianness, sharing, machine, dbg) ==
  RunLoop(SerializeEntry(Entry(t, endianness, sharing), machine, dbg), dbg)

\* The call with the test of firstContiguousDim == 0 taken out: the loop
\* is entered whatever firstContiguousDim is.
SerializeForced(t, endianness, sharing, machine, dbg) ==
  LET a == ResolveEndianness(Entry(t, endianness, sharing), machine)
      b == IF a.pc = "fatal" THEN a ELSE Analyze(a, dbg)
  IN IF b.pc = "fatal" THEN b
     ELSE IF b.ndims = 0 THEN EmptyPath(Header(b))
     ELSE RunLoop(EnterLoop(Header(b)), dbg)

\* ------------------------------------------------- detail::deserialize
\* What the reader holds: the data type it expects and the buffer it got.
NoRx == [pc |-> "none", dtype |-> "", buf |-> <<>>]

\* The reader that returns the payload whatever the record's data type.
DeserializeUnchecked(in, dtype) ==
  [pc |-> "ok", dtype |-> dtype, buf |-> in.data]

\* The record's data type must be the expected one; the payload is then
\* returned as it is.
Deserialize(in, dtype) ==
  IF in.dataType = dtype THEN [pc |-> "ok", dtype |-> dtype, buf |-> in.data]
  ELSE [pc |-> "fatal", dtype |-> dtype, buf |-> <<>>]

\* ------------------------------------------------------ logical view
\* Every element of the tensor lies inside its storage.
TensorInBounds(t) ==
  \A r \in 0..(Prod(t.sizes) - 1) :
     t.storageOffset + ElemOffset(t.sizes, t.strides, r) < t.storageElems

\* The row-major flattening of the tensor: its elements in the order of
\* their row-major rank, the element of indices (i_1, ..., i_n) being the
\* element of the storage at storageOffset + sum of i_d * stride_d, each
\* element as its bytes.
Flattening(t) ==
  LET es == ElementSize(t.dtype)
  IN [p \in 1..(Prod(t.sizes) * es) |->
        ByteAt(StorageBuf(t).mem,
               (t.storageOffset
                + ElemOffset(t.sizes, t.strides, (p - 1) \div es)) * es
               + ((p - 1) % es))]

\* ------------------------------------------------------------- inputs
Seqs(S, n) == [1..n -> S]

\* Scalars, vectors and matrices of sizes 0..MaxSize.
Shapes == {<<>>} \cup Seqs(0..MaxSize, 1) \cup Seqs(0..MaxSize, 2)

\* Implicit strides, or any stride 0..MaxStride in each dimension.
StridesOf(sizes) ==
  IF sizes = <<>> THEN {<<>>}
  ELSE {<<>>} \cup Seqs(0..MaxStride, Len(sizes))

TensorsOf(shapes, stridesOf, dtypes, storageElems, offsets) ==
  UNION {{[sizes |-> s, strides |-> st, dtype |-> dt,
           storageElems |-> storageElems, storageOffset |-> o,
           managed |-> m, content |-> <<>>] :
            st \in stridesOf[s], dt \in dtypes, o \in offsets,
            m \in BOOLEAN} : s \in shapes}

\* The storage of the small tensors holds a matrix of MaxSize rows and
\* columns at the offset MaxOffset, and not every tensor of the family.
StorageElems == MaxOffset + MaxSize * MaxSize

SmallTensors ==
  TensorsOf(Shapes, [s \in Shapes |-> StridesOf(s)], DataTypes,
            StorageElems, {0, MaxOffset})

\* Tensors of DeepDims dimensions of sizes 1 and 2, laid out row-major,
\* column-major, row-major with every row padded by one element, or with
\* implicit strides.
DeepShapes == Seqs(1..2, DeepDims)

DeepTensors ==
  TensorsOf(DeepShapes,
            [s \in DeepShapes |->
               {<<>>, RowMajorStrides(s), ColMajorStrides(s),
                RowMajorStrides([d \in 1..Len(s) |-> s[d] + 1])}],
            {"INT32"}, 3 ^ DeepDims, {0})

\* Runs just below and at kMinCloneSize bytes: a tensor of one row with
\* implicit strides, or of two rows padded by one element.
RunElems(dt) == {kMinCloneSize \div ElementSize(dt) - 1,
                 kMinCloneSize \div ElementSize(dt)}

BigOf(dt, n) ==
  {[sizes |-> v[1], strides |-> v[2], dtype |-> dt,
    storageElems |-> 2 * n + 1, storageOffset |-> 0, managed |-> m,
    content |-> <<>>] :
     v \in {<<(<<n>>), <<>>>>, <<(<<2, n>>), <<n + 1, 1>> >>},
     m \in BOOLEAN}

BigTensors ==
  UNION {UNION {BigOf(dt, n) : n \in RunElems(dt)} : dt \in DataTypes}

Tensors == SmallTensors \cup DeepTensors \cup BigTensors

\* -------------------------------------------------------------- actions
Init ==
  /\ tensor \in Tensors
  /\ gMachineEndianness \in {"LITTLE", "BIG"}
  /\ call = IdleFrame
  /\ rx = NoRx

DbgChoices(f) == IF f.release THEN {FALSE} ELSE BOOLEAN

\* A copy that reads past the end of the source buffer is undefined: the
\* process may go on with whatever bytes were there, or die on the read.
Outcomes(g) == IF g.oobCopy THEN {g, [g EXCEPT !.pc = "crash"]} ELSE {g}

SerializeCall ==
  /\ call.pc = "idle"
  /\ \E endianness \in Endiannesses, sharing \in SharingModes, dbg \in BOOLEAN :
       call' \in Outcomes(SerializeEntry(Entry(tensor, endianness, sharing),
                                         gMachineEndianness, dbg))
  /\ UNCHANGED <<tensor, gMachineEndianness, rx>>

Emit ==
  /\ CanStep(call) /\ call.idx = call.firstContiguousDim
  /\ \E dbg \in DbgChoices(call) : call' \in Outcomes(EmitStep(call, dbg))
  /\ UNCHANGED <<tensor, gMachineEndianness, rx>>

Advance ==
  /\ CanStep(call) /\ call.idx >= 0 /\ call.idx < call.firstContiguousDim
  /\ call' = AdvanceStep(call)
  /\ UNCHANGED <<tensor, gMachineEndianness, rx>>

Finish ==
  /\ call.pc = "loop" /\ call.idx < 0
  /\ call' = FinishStep(call)
  /\ UNCHANGED <<tensor, gMachineEndianness, rx>>

DeserializeCall ==
  /\ call.pc = "done" /\ rx.pc = "none"
  /\ \E dtype \in DataTypes : rx' = Deserialize(call.out, dtype)
  /\ UNCHANGED <<tensor, gMachineEndianness, call>>

Next == SerializeCall \/ Emit \/ Advance \/ Finish \/ DeserializeCall

Spec == Init /\ [][Next]_vars
\* ---------------------------------------------------------------- C1
\* C1: for a tensor of one dimension or more whose elements all lie inside
\* its storage, under every sharing mode, the buffer that deserialize
\* returns for the record that serialize produced is, byte for byte, the
\* row-major flattening of the tensor.
RoundTrip ==
  (rx.pc = "ok" /\ Len(tensor.sizes) >= 1 /\ TensorInBounds(tensor))
    => Payload(rx.buf) = Flattening(tensor)

\* A strided tensor with a storage offset went through the loop with runs
\* shared with the source, and came back.
RoundTripWitness ==
  /\ rx.pc = "ok" /\ TensorInBounds(tensor)
  /\ tensor.storageOffset > 0 /\ tensor.strides = <<1, 2>>
  /\ call.firstContiguousDim = 2
  /\ Len(call.out.data) = 4 /\ call.sharing = "SHARE_ALL"
  /\ Payload(rx.buf) # Bytes(call.data0)

\* ---------------------------------------------------------------- C2
\* C2 as stated: after every call that returns, the record's sizes are the
\* input's, its dataType the requested one, and its payload is
\* product(sizes) * elementSize bytes long, on the ndims == 0 path too.
PayloadLengthIsProduct ==
  call.pc = "done"
    => /\ call.out.sizes = tensor.sizes
       /\ call.out.dataType = tensor.dtype
       /\ ChainLength(call.out.data)
            = Prod(tensor.sizes) * ElementSize(tensor.dtype)

\* The number of elements of a tensor of the given sizes: none when it has
\* no dimension.
ElementCount(sizes) == IF sizes = <<>> THEN 0 ELSE Prod(sizes)

\* C2 amended: after every call that returns, the record's sizes are the
\* input's, its dataType the requested one, and its payload is
\* product(sizes) * elementSize bytes long when ndims >= 1 and empty when
\* ndims == 0; the payload then holds exactly as many elements as a tensor
\* of these sizes has.
PayloadLengthIsElementCount ==
  call.pc = "done"
    => /\ call.out.sizes = tensor.sizes
       /\ call.out.dataType = tensor.dtype
       /\ ChainLength(call.out.data)
            = ElementCount(tensor.sizes) * ElementSize(tensor.dtype)
       /\ ChainLength(call.out.data) \div ElementSize(tensor.dtype)
            = ElementCount(call.out.sizes)

\* The fast path returned a payload shorter than the source buffer, of
\* elements of more than one byte.
PayloadLengthWitness ==
  /\ call.pc = "done" /\ call.ndims >= 1 /\ call.firstContiguousDim = 0
  /\ call.elementSize > 1
  /\ 0 < call.dataSize /\ call.dataSize < call.data0.length
  /\ ChainLength(call.out.data) = call.dataSize

\* ---------------------------------------------------------------- C3
\* C3: when the tensor has no dimension, the call returns a record with no
\* sizes and an empty payload, whatever the sharing mode and the content
\* of the source buffer, and the source buffer is left empty.
EmptyTensor ==
  (call.pc = "done" /\ tensor.sizes = <<>>)
    => /\ call.out.sizes = <<>>
       /\ call.out.data = <<>>
       /\ ChainLength(call.out.data) = 0
       /\ call.data = EmptyBuf

\* A tensor of no dimension over a storage that holds bytes was serialized
\* with sharing allowed.
EmptyTensorWitness ==
  /\ call.pc = "done" /\ tensor.sizes = <<>>
  /\ call.data0.length > 0 /\ call.sharing = "SHARE_ALL"

\* ---------------------------------------------------------------- C4
\* No byte of the source has been handed to the output.
NoSourceByteRead ==
  /\ \A i \in 1..Len(call.outQueue) : call.outQueue[i].buf.length = 0
  /\ call.pc = "done" => ChainLength(call.out.data) = 0

\* C4: for a tensor of one dimension or more with a dimension of size 0,
\* whatever its strides, and a byte order the machine accepts, the call
\* trips no fatal check, reads no byte of the source, and returns an empty
\* payload with the input's sizes.
ZeroSizeIsValid ==
  (/\ call.pc # "idle" /\ call.site # "endianness"
   /\ Len(tensor.sizes) >= 1
   /\ \E d \in 1..Len(tensor.sizes) : tensor.sizes[d] = 0)
    => /\ call.pc \notin {"fatal", "crash"}
       /\ NoSourceByteRead
       /\ call.pc = "done" => call.out.sizes = tensor.sizes

\* ---------------------------------------------------------------- C5
\* The iterations of a loop that visits each combination of the leading
\* indices once: one to emit its run, and at most one per leading
\* dimension to advance.
LoopBound(f) ==
  (f.firstContiguousDim + 1)
    * (Prod(SubSeq(f.sizes, 1, f.firstContiguousDim)) + 1)

\* C5: the loop of the general path ends after a number of iterations
\* bounded by the product of the leading sizes, a leading dimension of
\* size 0 or 1 included.
LoopIsBounded == call.steps <= LoopBound(call)

\* ---------------------------------------------------------------- C6
Chain(f) == IF f.pc = "done" THEN f.out.data ELSE f.outQueue

\* Whether the sharing mode and the ownership of the source allow sharing.
SharingAllowed(f) ==
  /\ f.sharing # "SHARE_NONE"
  /\ f.sharing = "SHARE_IOBUF_MANAGED" => f.managed

\* C6 as stated: on the fast path and on the general path alike, a run is
\* shared with the source only if the mode is not NONE, the run is at
\* least kMinCloneSize bytes long and, under MANAGED_ONLY, the source is
\* managed; a run of kMinCloneSize bytes is shared under ALL.
AliasOnlyFromThreshold ==
  \A i \in 1..Len(Chain(call)) :
     LET seg == Chain(call)[i]
     IN /\ seg.alias => (SharingAllowed(call)
                          /\ seg.buf.length >= kMinCloneSize)
        /\ (call.sharing = "SHARE_ALL" /\ seg.buf.length = kMinCloneSize)
             => seg.alias

\* C6 amended: on the general path, a run is shared with the source
\* exactly when the mode is not NONE, the run is at least kMinCloneSize
\* bytes long and, under MANAGED_ONLY, the source is managed, and is
\* copied otherwise: a run of kMinCloneSize - 1 bytes is always copied and
\* one of kMinCloneSize bytes is shared under ALL.  The threshold is not
\* applied on the fast path.
AliasFromThresholdInLoop ==
  call.firstContiguousDim > 0
    => \A i \in 1..Len(Chain(call)) :
          LET seg == Chain(call)[i]
          IN /\ seg.buf.length = call.contiguousSize
             /\ seg.alias <=> (SharingAllowed(call)
                               /\ seg.buf.length >= kMinCloneSize)

\* The loop shared a run of exactly kMinCloneSize bytes under ALL.
AliasThresholdWitness ==
  /\ call.pc = "done" /\ call.firstContiguousDim > 0
  /\ call.sharing = "SHARE_ALL" /\ ~call.managed
  /\ Len(call.out.data) = 2
  /\ \A i \in 1..2 : /\ call.out.data[i].alias
                      /\ call.out.data[i].buf.length = kMinCloneSize

\* ---------------------------------------------------------------- C7
\* C7: for a tensor whose elements all lie inside its storage, the records
\* that the call produces under the three sharing modes, the source
\* managed or not, have the same sizes and the same payload bytes.
SharingTransparent ==
  (call.pc = "done" /\ TensorInBounds(tensor))
    => \A sharing \in SharingModes, managed \in BOOLEAN :
          LET g == Serialize([tensor EXCEPT !.managed = managed],
                             call.endianness, sharing, gMachineEndianness,
                             ~call.release)
          IN /\ g.pc = "done"
             /\ g.out.sizes = call.out.sizes
             /\ Payload(g.out.data) = Payload(call.out.data)

\* The loop returned a payload of shared runs taken at different offsets
\* of the source.
SharingTransparentWitness ==
  /\ call.pc = "done" /\ TensorInBounds(tensor)
  /\ call.firstContiguousDim > 0 /\ Len(call.out.data) = 2
  /\ call.out.data[1].alias /\ call.out.data[2].alias
  /\ call.out.data[1].buf.start # call.out.data[2].buf.start

\* ---------------------------------------------------------------- C8
\* A tensor with the sizes and the logical elements of t, laid out
\* row-major in a storage of its own, with the given strides.
Canonical(t, strides) ==
  [t EXCEPT !.strides = strides, !.storageOffset = 0,
            !.storageElems = Prod(t.sizes),
            !.content = [sizes |-> t.sizes,
                         strides |-> IF t.strides = <<>>
                                     THEN RowMajorStrides(t.sizes)
                                     ELSE t.strides,
                         es |-> ElementSize(t.dtype),
                         start |-> t.storageOffset * ElementSize(t.dtype)]]

\* C8: a tensor whose elements all lie inside its storage and the tensor
\* with the same sizes and logical elements laid out row-major in another
\* buffer, passed with implicit or with explicit strides, serialize to the
\* same sizes and the same payload bytes; the record has no field for
\* strides or offset.
Canonicalization ==
  (call.pc = "done" /\ Len(tensor.sizes) >= 1 /\ TensorInBounds(tensor))
    => /\ DOMAIN call.out = {"dataType", "endianness", "sizes", "data"}
       /\ \A strides \in {<<>>, RowMajorStrides(tensor.sizes)} :
             LET g == Serialize(Canonical(tensor, strides), call.endianness,
                                call.sharing, gMachineEndianness, FALSE)
             IN /\ g.pc = "done"
                /\ g.out.sizes = call.out.sizes
                /\ Payload(g.out.data) = Payload(call.out.data)

\* A tensor stored column-major was serialized: its payload is not the
\* bytes of its buffer in storage order.
CanonicalizationWitness ==
  /\ call.pc = "done" /\ TensorInBounds(tensor)
  /\ tensor.sizes = <<2, 2>> /\ tensor.strides = <<1, 2>>
  /\ Len(Payload(call.out.data)) = 4
  /\ Payload(call.out.data) # SubSeq(Bytes(call.data0), 1, 4)

\* ---------------------------------------------------------------- C9
\* C9: when the strides are empty or those of the row-major layout
\* (firstContiguousDim == 0) and the elements all lie inside the storage,
\* the payload of the fast path is the payload that the loop produces for
\* the same input when it is entered regardless.
FastPathEquivalence ==
  (/\ call.pc = "done" /\ call.ndims >= 1 /\ call.firstContiguousDim = 0
   /\ TensorInBounds(tensor))
    => LET g == SerializeForced(tensor, call.endianness, call.sharing,
                                gMachineEndianness, FALSE)
       IN /\ g.pc = "done"
          /\ Len(g.out.data) = 1
          /\ Payload(g.out.data) = Payload(call.out.data)

\* The fast path trimmed a buffer longer than the tensor and returned it.
FastPathEquivalenceWitness ==
  /\ call.pc = "done" /\ call.ndims >= 1 /\ call.firstContiguousDim = 0
  /\ TensorInBounds(tensor) /\ tensor.strides # <<>>
  /\ 0 < call.dataSize /\ call.dataSize < call.data0.length

\* --------------------------------------------------------------- C10
\* C10: a call that gets past the byte-order check works with the
\* machine's byte order, and the record it returns holds LITTLE or BIG,
\* never NATIVE; a request for an explicit byte order that is not the
\* machine's is fatal, with the record and the source buffer as they were.
ByteOrderResolved ==
  /\ (call.pc # "idle" /\ call.site # "endianness")
       => call.endianness = gMachineEndianness
  /\ call.pc = "done"
       => /\ call.out.endianness = gMachineEndianness
          /\ call.out.endianness \in {"LITTLE", "BIG"}
  /\ \A endianness \in Endiannesses, sharing \in SharingModes,
         dbg \in BOOLEAN :
        LET g == SerializeEntry(Entry(tensor, endianness, sharing),
                                gMachineEndianness, dbg)
            refused == g.pc = "fatal" /\ g.site = "endianness"
        IN /\ refused <=> endianness \notin {"NATIVE", gMachineEndianness}
           /\ refused => (g.out = PriorOut /\ g.data = g.data0)
  /\ (call.pc = "fatal" /\ call.site = "endianness")
       => /\ call.endianness \notin {"NATIVE", gMachineEndianness}
          /\ call.out = PriorOut
          /\ call.data = call.data0

\* A request for LITTLE on a big-endian machine was refused.
ByteOrderWitness ==
  /\ call.pc = "fatal" /\ call.site = "endianness"
  /\ call.endianness = "LITTLE" /\ gMachineEndianness = "BIG"
  /\ Len(tensor.sizes) >= 1

\* --------------------------------------------------------------- C11
\* C11: during and after a call that takes the general path the source
\* buffer is as the caller passed it (same memory, start and length, hence
\* the same bytes), under every sharing mode and also when runs were
\* shared; after a call that took the fast path or the ndims == 0 path the
\* source buffer is empty and exposes none of the data.
SourceBufferEffect ==
  /\ (call.pc \in {"loop", "done"} /\ call.ndims >= 1
       /\ call.firstContiguousDim > 0)
       => /\ call.data = call.data0
          /\ Bytes(call.data) = Bytes(call.data0)
  /\ (call.pc = "done" /\ (call.ndims = 0 \/ call.firstContiguousDim = 0))
       => /\ call.data = EmptyBuf
          /\ Bytes(call.data) = <<>>

\* The loop returned two runs shared with a managed source, whose buffer
\* still holds its bytes.
SourceBufferWitness ==
  /\ call.pc = "done" /\ call.firstContiguousDim > 0
  /\ call.sharing = "SHARE_IOBUF_MANAGED" /\ call.managed
  /\ Len(call.out.data) = 2
  /\ call.out.data[1].alias /\ call.out.data[2].alias
  /\ call.data.length > 0

\* --------------------------------------------------------------- C12
\* C12: a run that does not lie inside the source buffer is never emitted,
\* on the fast path or in the loop, copied or shared: the call dies
\* instead, and every byte of the payload comes from the source buffer.
\* Stated for tensors without a dimension of size 0, which C4 and C5 are
\* about.
BoundsViolationsAreFatal ==
  (\A d \in 1..Len(tensor.sizes) : tensor.sizes[d] >= 1)
    => /\ ~call.oob
       /\ \A i \in 1..Len(Chain(call)) :
             LET buf == Chain(call)[i].buf
             IN buf.length > 0
                  => /\ buf.start + buf.length <= buf.mem.size
                     /\ ByteAt(buf.mem, buf.start + buf.length - 1)
                          # Garbage

\* --------------------------------------------------------------- C13
\* C13: deserialize of a record whose dataType is the expected one returns
\* the payload of the record, the same bytes in the same order, whatever
\* the record's byte order; with another dataType it is fatal and returns
\* no buffer; in both cases the record is left as it was.
DeserializeContract ==
  /\ [](/\ rx.pc = "ok"
            => /\ rx.dtype = call.out.dataType
               /\ rx.buf = call.out.data
               /\ Payload(rx.buf) = Payload(call.out.data)
        /\ rx.pc = "fatal"
            => /\ rx.dtype # call.out.dataType
               /\ rx.buf = <<>>)
  /\ [][rx' # rx => call' = call]_vars

\* A record of INT32 elements in several runs, written on a big-endian
\* machine, was read back as INT32.
DeserializeWitness ==
  /\ rx.pc = "ok" /\ rx.dtype = "INT32"
  /\ gMachineEndianness = "BIG" /\ call.out.endianness = "BIG"
  /\ Len(rx.buf) >= 2 /\ Len(Payload(rx.buf)) >= 8

\* --------------------------------------------------------------- C14
\* The sizes and strides of the leading dimensions, those before
\* firstContiguousDim.
LeadingSizes(f) == SubSeq(f.sizes, 1, f.firstContiguousDim)

LeadingStrides(f) == SubSeq(f.strides, 1, f.firstContiguousDim)

\* The rank of a counter in the lexicographic order of the combinations
\* of leading indices, dimension 0 the most significant.
RECURSIVE CounterRank(_, _, _)
CounterRank(counter, sizes, d) ==
  IF d = 0 THEN 0
  ELSE CounterRank(counter, sizes, d - 1) * sizes[d] + counter[d]

\* The sum over the leading dimensions of counter * stride * elementSize.
RECURSIVE CounterOffset(_, _)
CounterOffset(f, d) ==
  IF d = 0 THEN 0
  ELSE CounterOffset(f, d - 1) + f.counter[d] * f.strides[d] * f.elementSize

\* C14: on the general path, the leading sizes all >= 1, the runs emitted
\* so far are those of the first combinations of leading indices in
\* lexicographic order, each of contiguousRunElements * elementSize bytes
\* at the byte offset sum of index * stride * elementSize; whenever a run
\* is about to be emitted the counters are a combination, the number of
\* runs emitted is its rank and the source cursor is at its offset; when
\* the loop is left there is one run per combination, every counter is 0
\* and the cursor is back at the base.
OdometerTraversal ==
  (/\ call.pc \in {"loop", "done"} /\ call.firstContiguousDim > 0
   /\ \A d \in 1..call.firstContiguousDim : call.sizes[d] >= 1)
    => LET n == call.firstContiguousDim
           runBytes == Prod(SubSeq(call.sizes, n + 1, call.ndims))
                         * call.elementSize
       IN /\ \A i \in 1..Len(Chain(call)) :
                /\ Chain(call)[i].buf.length = runBytes
                /\ Chain(call)[i].buf.start
                     = call.data0.start
                       + OffsetSum(LeadingSizes(call), LeadingStrides(call),
                                   i - 1, 1) * call.elementSize
          /\ (call.pc = "loop" /\ call.idx = n)
               => /\ \A d \in 1..n : call.counter[d] < call.sizes[d]
                  /\ Len(call.outQueue)
                       = CounterRank(call.counter, call.sizes, n)
                  /\ call.src = CounterOffset(call, n)
          /\ (call.pc = "done" \/ call.idx < 0)
               => /\ Len(Chain(call)) = Prod(LeadingSizes(call))
                  /\ \A d \in 1..n : call.counter[d] = 0
                  /\ call.src = 0

\* The loop went through the four combinations of two leading dimensions
\* of different strides and returned.
OdometerWitness ==
  /\ call.pc = "done" /\ call.firstContiguousDim = 2
  /\ call.sizes[1] = 2 /\ call.sizes[2] = 2
  /\ call.strides[1] # call.strides[2] /\ call.strides[2] > 0
  /\ Len(call.out.data) = 4
  /\ call.out.data[2].buf.start # call.out.data[3].buf.start

\* --------------------------------------------------------------- C15
\* Every dimension from k (0-based) on has the stride of the row-major
\* layout: the product of the sizes of the dimensions after it.
SuffixContiguous(sizes, strides, k) ==
  \A d \in (k + 1)..Len(sizes) :
     strides[d] = Prod(SubSeq(sizes, d + 1, Len(sizes)))

\* C15: with strides given, firstContiguousDim is the smallest k in
\* 0..ndims from which on every stride is that of the row-major layout,
\* the run is product(sizes[k..)) elements and the data product(sizes)
\* elements; with empty strides firstContiguousDim is 0 and the run is the
\* whole data.  A dimension of size 1 with another stride ends the run.
ContiguityAnalysis ==
  (call.pc # "idle" /\ call.site # "endianness")
    => LET n == Len(call.sizes)
           k == call.firstContiguousDim
           es == call.elementSize
       IN /\ call.ndims = n
          /\ call.dataSize = Prod(call.sizes) * es
          /\ call.contiguousSize = Prod(SubSeq(call.sizes, k + 1, n)) * es
          /\ call.dataSize
               = Prod(SubSeq(call.sizes, 1, k)) * call.contiguousSize
          /\ IF call.strides = <<>>
             THEN k = 0 /\ call.contiguousSize = call.dataSize
             ELSE /\ k \in 0..n
                  /\ SuffixContiguous(call.sizes, call.strides, k)
                  /\ \A j \in 0..(k - 1) :
                        ~SuffixContiguous(call.sizes, call.strides, j)
                  /\ k > 0 => call.strides[k]
                                # Prod(SubSeq(call.sizes, k + 1, n))

\* A last dimension of size 1 whose stride is not 1 ended the run at once:
\* the two elements went out as two runs.
ContiguityWitness ==
  /\ call.pc = "done" /\ call.sizes = <<2, 1>> /\ call.strides = <<1, 2>>
  /\ call.firstContiguousDim = 2 /\ call.contiguousSize = call.elementSize
  /\ Len(call.out.data) = 2
====
